---- MODULE Spec2Model ----
(***************************************************************************)
(* Model of utils/topcoder-api-helper.js: the legacy token exchange with   *)
(* its module-level cache (getAccessToken) and the exported endpoint       *)
(* operations, each of which acquires a machine token, issues one request  *)
(* through axios and converts a failure with convertTopcoderApiError.      *)
(*                                                                         *)
(* JavaScript runs one continuation at a time: the code between two awaits *)
(* is one atomic step.  Every action below is one such continuation.       *)
(***************************************************************************)
EXTENDS Integers, Sequences, FiniteSets

(***************************************************************************)
(* Bounds                                                                  *)
(***************************************************************************)
\* concurrent callers of getAccessToken
NumCallers == 2
\* the clock (new Date().getTime()) takes the values 0..MaxTime
MaxTime == 1
\* longest resource list the resources endpoint answers with
MaxResources == 2

Callers == 1..NumCallers

VARIABLES
  \* ---- token provider (getAccessToken) ----
  cachedAccessToken,  \* the module-level cache, line 30
  now,                \* new Date().getTime()
  pc,                 \* per caller: where its getAccessToken call stands
  v2Response,         \* per caller: what the identity endpoint answered
  result,             \* per caller: how its last call ended
  calls,              \* per caller: the transport calls its call issued, in order
  cold,               \* per caller: it was called with no cached token
  stored,             \* per caller: the values its call assigned to the cache
  lastSuccess,        \* the token written by the last exchange that succeeded
  \* ---- endpoint operations ----
  op,                 \* the exported operation invoked, with its roleId argument
  opPc,               \* where the invocation stands
  apiKey,             \* what getM2Mtoken resolved with
  m2mErr,             \* what getM2Mtoken rejected with, if it did
  requests,           \* the requests handed to axios by this invocation
  response,           \* what axios resolved with, if it did
  transportErr,       \* what axios rejected with, if it did
  converted,          \* the (err, message) pairs given to convertTopcoderApiError
  outcome             \* what the caller of the operation receives

tokVars == <<cachedAccessToken, now, pc, v2Response, result, calls, cold,
             stored, lastSuccess>>
opVars == <<op, opPc, apiKey, m2mErr, requests, response, transportErr, converted,
           outcome>>
vars == <<tokVars, opVars>>

(***************************************************************************)
(* JavaScript values                                                       *)
(***************************************************************************)
Undefined == [t |-> "undefined"]
Null == [t |-> "null"]
JsNumber(n) == [t |-> "number", n |-> n]
JsString(s) == [t |-> "string", s |-> s]
JsBool(b) == [t |-> "boolean", b |-> b]

\* ToBoolean, as `!x` and `if (x)` apply it
Truthy(v) ==
  CASE v.t = "undefined" -> FALSE
    [] v.t = "null" -> FALSE
    [] v.t = "number" -> v.n # 0
    [] v.t = "string" -> v.s # ""
    [] v.t = "boolean" -> v.b
    [] OTHER -> TRUE

JsArray(items) == [t |-> "array", items |-> items]
JsObject(fields) == [t |-> "object", fields |-> fields]

\* obj.field, for an obj that is neither null nor undefined
Get(obj, field) ==
  IF obj.t = "object" /\ field \in DOMAIN obj.fields THEN obj.fields[field]
  ELSE Undefined

\* _.get(obj, 'a.b.c'): undefined as soon as a step is missing
RECURSIVE GetPath(_, _)
GetPath(obj, path) ==
  IF path = <<>> THEN obj
  ELSE GetPath(Get(obj, Head(path)), Tail(path))

NoResult == [type |-> "none"]
Returned(v) == [type |-> "return", value |-> v]
Thrown(e) == [type |-> "throw", error |-> e]

(***************************************************************************)
(* Token provider                                                          *)
(***************************************************************************)
\* A token the authorization endpoint can answer with: a JWT whose payload
\* may or may not carry an iat claim, or a string that is no JWT.
Jwt(hasIat, iat) == [t |-> "jwt", hasIat |-> hasIat, iat |-> iat]
Opaque == JsString("not-a-jwt")
Tokens ==
  {Jwt(TRUE, iat) : iat \in 0..(MaxTime + 1)} \cup {Jwt(FALSE, 0)} \cup {Opaque}

\* jwtDecode(token): the payload, or InvalidTokenError thrown
Decodable(token) == token.t = "jwt"
jwtDecode(token) == [hasIat |-> token.hasIat, iat |-> token.iat]
InvalidTokenError == [name |-> "InvalidTokenError", message |-> "Invalid token specified"]

\* lines 39-45: the cached token is used as it is.  An absent iat reads as
\* undefined, and undefined > n is false.
MutCachedTokenUsable(cached, time) ==
  /\ Truthy(cached)
  /\ Decodable(cached)
  /\ jwtDecode(cached).hasIat /\ jwtDecode(cached).iat >= time
CachedTokenUsable(cached, time) ==
  /\ Truthy(cached)
  /\ Decodable(cached)
  /\ LET decoded == jwtDecode(cached)
     IN  decoded.hasIat /\ decoded.iat > time

\* the errors getAccessToken raises itself, lines 53 and 72
AuthenticationError ==
  [name |-> "Error", message |-> "cannot authenticate with topcoder: TC_AUTHN_URL"]
AuthorizationError ==
  [name |-> "Error", message |-> "cannot authorize with topcoder: TC_AUTHZ_URL"]
\* what axios.post rejects with
AxiosError == [name |-> "AxiosError", message |-> "Request failed"]

\* the answers of the identity endpoint: data.id_token and data.refresh_token,
\* each present or not
NoResponse == [t |-> "none"]
V2Responses == [id_token : {Undefined, JsString("id")},
                refresh_token : {Undefined, JsString("refresh")}]
\* the answers of the authorization endpoint: data.result.content.token
V3Responses == Tokens \cup {Undefined}

\* line 52
MutV2TokensMissing(r) == ~Truthy(r.id_token) /\ ~Truthy(r.refresh_token)
V2TokensMissing(r) == ~Truthy(r.id_token) \/ ~Truthy(r.refresh_token)

\* lines 37-48: the call up to its first await
getAccessToken(p) ==
  /\ pc[p] = "idle"
  /\ cold' = [cold EXCEPT ![p] = ~Truthy(cachedAccessToken)]
  /\ IF Truthy(cachedAccessToken) /\ ~Decodable(cachedAccessToken)
       THEN /\ pc' = [pc EXCEPT ![p] = "done"]
            /\ result' = [result EXCEPT ![p] = Thrown(InvalidTokenError)]
            /\ UNCHANGED calls
       ELSE IF CachedTokenUsable(cachedAccessToken, now)
       THEN /\ pc' = [pc EXCEPT ![p] = "done"]
            /\ result' = [result EXCEPT ![p] = Returned(cachedAccessToken)]
            /\ UNCHANGED calls
       ELSE /\ pc' = [pc EXCEPT ![p] = "authn"]
            /\ calls' = [calls EXCEPT ![p] = <<"TC_AUTHN_URL">>]
            /\ UNCHANGED result
  /\ UNCHANGED <<cachedAccessToken, now, v2Response, stored, lastSuccess>>
  /\ UNCHANGED opVars

\* line 48: axios.post(TC_AUTHN_URL) rejects
AuthnRejected(p) ==
  /\ pc[p] = "authn"
  /\ pc' = [pc EXCEPT ![p] = "done"]
  /\ result' = [result EXCEPT ![p] = Thrown(AxiosError)]
  /\ UNCHANGED <<cachedAccessToken, now, v2Response, calls, cold, stored, lastSuccess>>
  /\ UNCHANGED opVars

\* the authorization request of lines 57-67
MutAuthzRequest(log) == Append(log, "TC_AUTHN_URL")
AuthzRequest(log) == Append(log, "TC_AUTHZ_URL")

\* lines 48-67: axios.post(TC_AUTHN_URL) resolves; up to the second await
AuthnResolved(p) ==
  /\ pc[p] = "authn"
  /\ \E r \in V2Responses :
       /\ v2Response' = [v2Response EXCEPT ![p] = r]
       /\ IF V2TokensMissing(r)
            THEN /\ pc' = [pc EXCEPT ![p] = "done"]
                 /\ result' = [result EXCEPT ![p] = Thrown(AuthenticationError)]
                 /\ UNCHANGED calls
            ELSE /\ pc' = [pc EXCEPT ![p] = "authz"]
                 /\ calls' = [calls EXCEPT ![p] = AuthzRequest(@)]
                 /\ UNCHANGED result
  /\ UNCHANGED <<cachedAccessToken, now, cold, stored, lastSuccess>>
  /\ UNCHANGED opVars

\* line 57: axios.post(TC_AUTHZ_URL) rejects
AuthzRejected(p) ==
  /\ pc[p] = "authz"
  /\ pc' = [pc EXCEPT ![p] = "done"]
  /\ result' = [result EXCEPT ![p] = Thrown(AxiosError)]
  /\ UNCHANGED <<cachedAccessToken, now, v2Response, calls, cold, stored, lastSuccess>>
  /\ UNCHANGED opVars

\* lines 57-75: axios.post(TC_AUTHZ_URL) resolves; the cache is assigned
\* before the token is looked at
AuthzResolved(p) ==
  /\ pc[p] = "authz"
  /\ \E token \in V3Responses :
       /\ cachedAccessToken' = token
       /\ stored' = [stored EXCEPT ![p] = Append(@, token)]
       /\ IF ~Truthy(token)
            THEN /\ result' = [result EXCEPT ![p] = Thrown(AuthorizationError)]
                 /\ UNCHANGED lastSuccess
            ELSE /\ result' = [result EXCEPT ![p] = Returned(cachedAccessToken')]
                 /\ lastSuccess' = token
  /\ pc' = [pc EXCEPT ![p] = "done"]
  /\ UNCHANGED <<now, v2Response, calls, cold>>
  /\ UNCHANGED opVars

\* the promise of line 37 settles: the caller has its token or its error
Settled(p) ==
  /\ pc[p] = "done"
  /\ pc' = [pc EXCEPT ![p] = "idle"]
  /\ result' = [result EXCEPT ![p] = NoResult]
  /\ calls' = [calls EXCEPT ![p] = <<>>]
  /\ stored' = [stored EXCEPT ![p] = <<>>]
  /\ v2Response' = [v2Response EXCEPT ![p] = NoResponse]
  /\ cold' = [cold EXCEPT ![p] = FALSE]
  /\ UNCHANGED <<cachedAccessToken, now, lastSuccess>>
  /\ UNCHANGED opVars

\* new Date().getTime() moves on
Tick ==
  /\ now < MaxTime
  /\ now' = now + 1
  /\ UNCHANGED <<cachedAccessToken, pc, v2Response, result, calls, cold, stored,
                 lastSuccess>>
  /\ UNCHANGED opVars

(***************************************************************************)
(* Endpoint operations                                                     *)
(*                                                                         *)
(* Each operation that talks to the API is described by what its code      *)
(* does: whether it awaits getM2Mtoken first, the request it hands to      *)
(* axios, the field of the response it returns (if it returns anything),   *)
(* whether its catch block                                                 *)
(* reads err.response.data before converting, and the message it gives to  *)
(* convertTopcoderApiError.                                                *)
(***************************************************************************)
createProject ==
  [name |-> "createProject", token |-> TRUE, method |-> "POST",
   url |-> "TC_API_URL/projects", hasReturn |-> TRUE, returns |-> <<"data", "id">>,
   readsResponseData |-> FALSE, message |-> "Failed to create project."]

createChallenge ==
  [name |-> "createChallenge", token |-> TRUE, method |-> "POST",
   url |-> "TC_API_URL/challenges", hasReturn |-> TRUE, returns |-> <<"data", "id">>,
   readsResponseData |-> FALSE, message |-> "Failed to create challenge."]

updateChallenge ==
  [name |-> "updateChallenge", token |-> TRUE, method |-> "PATCH",
   url |-> "TC_API_URL/challenges/id", hasReturn |-> FALSE, returns |-> <<>>,
   readsResponseData |-> TRUE, message |-> "Failed to update challenge."]

activateChallenge ==
  [name |-> "activateChallenge", token |-> TRUE, method |-> "PATCH",
   url |-> "TC_API_URL/challenges/id", hasReturn |-> FALSE, returns |-> <<>>,
   readsResponseData |-> TRUE, message |-> "Failed to activate challenge."]

getChallengeById ==
  [name |-> "getChallengeById", token |-> TRUE, method |-> "GET",
   url |-> "TC_API_URL/challenges/id", hasReturn |-> TRUE, returns |-> <<"data">>,
   readsResponseData |-> TRUE, message |-> "Failed to get challenge details by Id"]

closeChallenge ==
  [name |-> "closeChallenge", token |-> TRUE, method |-> "PATCH",
   url |-> "TC_API_URL/challenges/id", hasReturn |-> FALSE, returns |-> <<>>,
   readsResponseData |-> TRUE, message |-> "Failed to close challenge."]

getProjectBillingAccountId ==
  [name |-> "getProjectBillingAccountId", token |-> TRUE, method |-> "GET",
   url |-> "TC_API_URL/projects/id", hasReturn |-> TRUE, returns |-> <<"data", "billingAccountId">>,
   readsResponseData |-> TRUE,
   message |-> "Failed to get billing detail for the project."]

getTopcoderMemberId ==
  [name |-> "getTopcoderMemberId", token |-> FALSE, method |-> "GET",
   url |-> "TC_API_URL_V3/members/handle",
   hasReturn |-> TRUE, returns |-> <<"data", "result", "content", "userId">>,
   readsResponseData |-> FALSE, message |-> "Failed to get topcoder member id."]

addResourceToChallenge ==
  [name |-> "addResourceToChallenge", token |-> TRUE, method |-> "POST",
   url |-> "TC_API_URL/resources", hasReturn |-> FALSE, returns |-> <<>>,
   readsResponseData |-> TRUE,
   message |-> "Failed to add resource to the challenge."]

MutGetResourcesFromChallenge ==
  [name |-> "getResourcesFromChallenge", token |-> FALSE, method |-> "GET",
   url |-> "TC_API_URL/resources?challengeId=id", hasReturn |-> TRUE, returns |-> <<"data">>,
   readsResponseData |-> FALSE,
   message |-> "Failed to fetch resource from the challenge."]
getResourcesFromChallenge ==
  [name |-> "getResourcesFromChallenge", token |-> TRUE, method |-> "GET",
   url |-> "TC_API_URL/resources?challengeId=id", hasReturn |-> TRUE, returns |-> <<"data">>,
   readsResponseData |-> FALSE,
   message |-> "Failed to fetch resource from the challenge."]

cancelPrivateContent ==
  [name |-> "cancelPrivateContent", token |-> TRUE, method |-> "PATCH",
   url |-> "TC_API_URL/challenges/id", hasReturn |-> FALSE, returns |-> <<>>,
   readsResponseData |-> TRUE, message |-> "Failed to activate challenge."]

removeResourceToChallenge ==
  [name |-> "removeResourceToChallenge", token |-> TRUE, method |-> "DELETE",
   url |-> "TC_API_URL/resources", hasReturn |-> FALSE, returns |-> <<>>,
   readsResponseData |-> TRUE,
   message |-> "Failed to add resource to the challenge."]

\* the operations that hand a request to axios themselves
EndpointOps ==
  {createProject, createChallenge, updateChallenge, activateChallenge,
   getChallengeById, closeChallenge, getProjectBillingAccountId,
   getTopcoderMemberId, addResourceToChallenge, getResourcesFromChallenge,
   cancelPrivateContent, removeResourceToChallenge}

\* the operations that only call another one: lines 388-401, 408-410, 448-450
roleAlreadySet ==
  [name |-> "roleAlreadySet", calls |-> "getResourcesFromChallenge"]
unregisterUserFromChallenge ==
  [name |-> "unregisterUserFromChallenge", calls |-> "removeResourceToChallenge"]
assignUserAsRegistrant ==
  [name |-> "assignUserAsRegistrant", calls |-> "addResourceToChallenge"]
CompositeOps == {roleAlreadySet, unregisterUserFromChallenge, assignUserAsRegistrant}

\* module.exports, lines 485-501
ExportedNames ==
  {o.name : o \in EndpointOps} \cup {o.name : o \in CompositeOps}

\* the operation whose code issues the request when `name` is invoked
Endpoint(name) ==
  LET target ==
        IF \E c \in CompositeOps : c.name = name
          THEN (CHOOSE c \in CompositeOps : c.name = name).calls
          ELSE name
  IN  CHOOSE o \in EndpointOps : o.name = target

\* ---- the collaborators' answers ----
M2MTokens == {JsString("m2m-1"), JsString("m2m-2")}
\* what m2m.getMachineToken rejects with
M2MError == [name |-> "M2MError", message |-> "Unable to get machine token"]
\* what axios rejects with: a non-2xx answer carries the response, a network
\* error or a timeout carries none
TransportErrors ==
  {[name |-> "AxiosError", message |-> "Request failed with status code 500",
    response |-> JsObject([status |-> JsNumber(500), data |-> JsString("error")])],
   [name |-> "AxiosError", message |-> "Network Error", response |-> Undefined]}

RoleIds == {"A", "B", "C"}
Resource(roleId) == JsObject([roleId |-> JsString(roleId)])
RECURSIVE SeqsUpTo(_, _)
SeqsUpTo(S, n) ==
  IF n = 0 THEN {<<>>}
  ELSE LET shorter == SeqsUpTo(S, n - 1)
       IN  shorter \cup {Append(q, x) : q \in shorter, x \in S}
Resources == {Resource(r) : r \in RoleIds} \cup {JsObject([memberHandle |-> JsString("h")])}
ResourceLists == {JsArray(q) : q \in SeqsUpTo(Resources, MaxResources)}

BillingAccountIds ==
  {JsNumber(80001063), JsNumber(0), JsString("80001063"), JsString(""), Null,
   JsBool(FALSE)}

\* the bodies a 2xx answer to the operation's request carries
Bodies(o) ==
  CASE o.name = "getProjectBillingAccountId" ->
         {JsObject([name |-> JsString("p")])}
           \cup {JsObject([name |-> JsString("p"), billingAccountId |-> b]) :
                   b \in BillingAccountIds}
    [] o.name = "getResourcesFromChallenge" -> ResourceLists \cup {Undefined}
    [] o.name = "getTopcoderMemberId" ->
         {JsObject([result |-> JsObject([content |-> JsObject([userId |-> JsNumber(7)])])]),
          JsObject([result |-> JsObject([content |-> Null])])}
    [] OTHER -> {JsObject([id |-> JsNumber(1)]), JsObject([name |-> JsString("p")])}
Responses(o) == {JsObject([status |-> JsNumber(200), data |-> d]) : d \in Bodies(o)}

\* `Bearer ${apiKey}`
Bearer(key) == JsString("Bearer " \o key.s)

\* the request the operation hands to axios
Request(o, key) ==
  [method |-> o.method, url |-> o.url,
   authorization |-> IF o.token THEN Bearer(key) ELSE Undefined]

\* errors.convertTopcoderApiError(err, message)
convertTopcoderApiError(err, message) ==
  [name |-> "UpstreamRequestError", message |-> message, cause |-> err]

TypeError == [name |-> "TypeError", message |-> "Cannot read properties of undefined"]

\* the catch block of an endpoint operation: what it throws, and what it gave
\* to convertTopcoderApiError.  Reading err.response.data of an error that
\* carries no response throws before the conversion is reached.
CatchBlock(o, err) ==
  IF o.readsResponseData /\ err.response = Undefined
    THEN [thrown |-> TypeError, converted |-> <<>>]
    ELSE [thrown |-> convertTopcoderApiError(err, o.message),
          converted |-> <<[err |-> err, message |-> o.message]>>]

\* lines 294-302: the billing account id of the answer, or null
MutBillingAccountId(resp) ==
  LET billingAccountId == GetPath(resp, <<"data", "billingAccountId">>)
  IN  IF billingAccountId = Undefined THEN Undefined ELSE billingAccountId
BillingAccountId(resp) ==
  LET billingAccountId == GetPath(resp, <<"data", "billingAccountId">>)
  IN  IF ~Truthy(billingAccountId) THEN Null ELSE billingAccountId

\* the try block of an endpoint operation after axios resolved
TryBlock(o, resp) ==
  IF o.name = "getProjectBillingAccountId" THEN Returned(BillingAccountId(resp))
  ELSE IF o.hasReturn THEN Returned(GetPath(resp, o.returns))
  ELSE Returned(Undefined)

\* lines 392-396: resources.forEach(...)
RECURSIVE MutForEachResource(_, _, _)
MutForEachResource(resources, roleId, found) ==
  IF resources = <<>> THEN found
  ELSE MutForEachResource(Tail(resources), roleId,
                          Get(Head(resources), "roleId") = roleId)
RECURSIVE forEachResource(_, _, _)
forEachResource(resources, roleId, found) ==
  IF resources = <<>> THEN found
  ELSE forEachResource(Tail(resources), roleId,
                       IF Get(Head(resources), "roleId") = roleId THEN TRUE
                       ELSE found)

\* lines 388-401: roleAlreadySet around what getResourcesFromChallenge gave.
\* Its catch block converts whatever was thrown inside its try block.
RoleAlreadySetAround(inner, roleId) ==
  LET message == "Failed to fetch resource from the challenge."
      caught == IF inner.outcome.type = "throw" THEN inner.outcome.error
                ELSE TypeError
  IN  IF inner.outcome.type = "return" /\ inner.outcome.value.t = "array"
        THEN [outcome |-> Returned(JsBool(forEachResource(inner.outcome.value.items,
                                                          roleId, FALSE))),
              converted |-> inner.converted]
        ELSE [outcome |-> Thrown(convertTopcoderApiError(caught, message)),
              converted |-> Append(inner.converted,
                                   [err |-> caught, message |-> message])]

\* what the exported operation `name` makes of what its endpoint operation
\* gave: lines 388-401, 408-410, 448-450
Around(name, roleId, inner) ==
  IF name = "roleAlreadySet" THEN RoleAlreadySetAround(inner, roleId)
  ELSE inner

NoOp == [name |-> "none", roleId |-> Undefined]

\* an exported operation is called: up to its first await
Invoke(name, roleId) ==
  /\ opPc = "idle"
  /\ op' = [name |-> name,
            roleId |-> IF name = "roleAlreadySet" THEN JsString(roleId)
                       ELSE Undefined]
  /\ IF Endpoint(name).token
       THEN /\ opPc' = "getM2Mtoken"
            /\ UNCHANGED requests
       ELSE /\ opPc' = "axios"
            /\ requests' = Append(requests, Request(Endpoint(name), Undefined))
  /\ UNCHANGED <<apiKey, m2mErr, response, transportErr, converted, outcome>>
  /\ UNCHANGED tokVars

\* lines 82-84: getM2Mtoken resolves; the request is handed to axios
M2MResolved(token) ==
  /\ opPc = "getM2Mtoken"
  /\ apiKey' = token
  /\ requests' = Append(requests, Request(Endpoint(op.name), token))
  /\ opPc' = "axios"
  /\ UNCHANGED <<op, m2mErr, response, transportErr, converted, outcome>>
  /\ UNCHANGED tokVars

\* lines 82-84: getM2Mtoken rejects, outside the endpoint operation's try
M2MRejected ==
  /\ opPc = "getM2Mtoken"
  /\ m2mErr' = M2MError
  /\ LET end == Around(op.name, op.roleId,
                       [outcome |-> Thrown(M2MError), converted |-> <<>>])
     IN  /\ outcome' = end.outcome
         /\ converted' = end.converted
  /\ opPc' = "done"
  /\ UNCHANGED <<op, apiKey, requests, response, transportErr>>
  /\ UNCHANGED tokVars

\* axios resolves: the rest of the try block
HttpResolved(resp) ==
  /\ opPc = "axios"
  /\ resp \in Responses(Endpoint(op.name))
  /\ response' = resp
  /\ LET end == Around(op.name, op.roleId,
                       [outcome |-> TryBlock(Endpoint(op.name), resp),
                        converted |-> <<>>])
     IN  /\ outcome' = end.outcome
         /\ converted' = end.converted
  /\ opPc' = "done"
  /\ UNCHANGED <<op, apiKey, m2mErr, requests, transportErr>>
  /\ UNCHANGED tokVars

\* axios rejects: the catch block
HttpRejected(err) ==
  /\ opPc = "axios"
  /\ transportErr' = err
  /\ LET caught == CatchBlock(Endpoint(op.name), err)
         end == Around(op.name, op.roleId,
                       [outcome |-> Thrown(caught.thrown),
                        converted |-> caught.converted])
     IN  /\ outcome' = end.outcome
         /\ converted' = end.converted
  /\ opPc' = "done"
  /\ UNCHANGED <<op, apiKey, m2mErr, requests, response>>
  /\ UNCHANGED tokVars

\* the operation's promise settles: the caller has its value or its error
OpSettled ==
  /\ opPc = "done"
  /\ op' = NoOp
  /\ opPc' = "idle"
  /\ apiKey' = Undefined
  /\ m2mErr' = Undefined
  /\ requests' = <<>>
  /\ response' = Undefined
  /\ transportErr' = Undefined
  /\ converted' = <<>>
  /\ outcome' = NoResult
  /\ UNCHANGED tokVars

Init ==
  /\ cachedAccessToken = Undefined
  /\ now = 0
  /\ pc = [p \in Callers |-> "idle"]
  /\ v2Response = [p \in Callers |-> NoResponse]
  /\ result = [p \in Callers |-> NoResult]
  /\ calls = [p \in Callers |-> <<>>]
  /\ cold = [p \in Callers |-> FALSE]
  /\ stored = [p \in Callers |-> <<>>]
  /\ lastSuccess = Undefined
  /\ op = NoOp
  /\ opPc = "idle"
  /\ apiKey = Undefined
  /\ m2mErr = Undefined
  /\ requests = <<>>
  /\ response = Undefined
  /\ transportErr = Undefined
  /\ converted = <<>>
  /\ outcome = NoResult

TokNext ==
  \/ \E p \in Callers : getAccessToken(p)
  \/ \E p \in Callers : AuthnRejected(p)
  \/ \E p \in Callers : AuthnResolved(p)
  \/ \E p \in Callers : AuthzRejected(p)
  \/ \E p \in Callers : AuthzResolved(p)
  \/ \E p \in Callers : Settled(p)
  \/ Tick

SpecTok == Init /\ [][TokNext]_vars

AllResponses == UNION {Responses(o) : o \in EndpointOps}

Next ==
  \/ \E name \in ExportedNames, roleId \in RoleIds : Invoke(name, roleId)
  \/ \E token \in M2MTokens : M2MResolved(token)
  \/ M2MRejected
  \/ \E resp \in AllResponses : HttpResolved(resp)
  \/ \E err \in TransportErrors : HttpRejected(err)
  \/ OpSettled

Spec == Init /\ [][Next]_vars
(***************************************************************************)
(* Properties of the endpoint operations (under Spec)                      *)
(***************************************************************************)
TransportFailed == opPc = "done" /\ transportErr # Undefined
TokenFailed == opPc = "done" /\ m2mErr # Undefined

\* C1: whenever the transport call of an exported operation fails, the caller
\* receives one UpstreamRequestError made by convertTopcoderApiError whose
\* cause is the transport error itself: not another kind of error, and not
\* one converted twice.
C1_TransportFailureNormalizedOnce ==
  TransportFailed =>
    /\ outcome.type = "throw"
    /\ outcome.error.name = "UpstreamRequestError"
    /\ outcome.error.cause = transportErr
    /\ Len(converted) = 1

\* C2: the message raised on a transport failure is the failed operation's
\* own description: it is not the description of an endpoint operation other
\* than the one that issued the request.
C2_MessageNamesTheOperation ==
  (TransportFailed /\ outcome.type = "throw"
     /\ outcome.error.name = "UpstreamRequestError") =>
    \A o \in EndpointOps :
      o.name # Endpoint(op.name).name => o.message # outcome.error.message

\* C3: when acquiring the token fails, the operation rejects with the token
\* provider's own error, no request is issued and nothing is given to
\* convertTopcoderApiError.
C3_TokenFailurePropagatesUnchanged ==
  TokenFailed =>
    /\ outcome = Thrown(M2MError)
    /\ requests = <<>>
    /\ converted = <<>>

BillingOutcome ==
  /\ opPc = "done"
  /\ op.name = "getProjectBillingAccountId"
  /\ response # Undefined
BillingBody == Get(response, "data").fields

\* C8 as stated: a body without billingAccountId gives null, a body with the
\* field gives that field's value, whatever the value.
C8_ExactValueForEveryValue ==
  BillingOutcome =>
    IF "billingAccountId" \notin DOMAIN BillingBody THEN outcome = Returned(Null)
    ELSE outcome = Returned(BillingBody.billingAccountId)

\* C8 amended: a body without billingAccountId, or with a falsy one (0, the
\* empty string, null, false), gives null and no error; a body with a truthy
\* billingAccountId gives exactly that value.
C8_TruthyValueOrNull ==
  BillingOutcome =>
    IF "billingAccountId" \notin DOMAIN BillingBody THEN outcome = Returned(Null)
    ELSE IF BillingBody.billingAccountId \in {JsNumber(0), JsString(""), Null, JsBool(FALSE)}
           THEN outcome = Returned(Null)
    ELSE outcome = Returned(BillingBody.billingAccountId)

C8_Witness ==
  /\ BillingOutcome
  /\ "billingAccountId" \in DOMAIN BillingBody
  /\ outcome = Returned(JsNumber(80001063))

RoleOutcome ==
  /\ opPc = "done"
  /\ op.name = "roleAlreadySet"
  /\ response # Undefined
  /\ Get(response, "data").t = "array"
RoleItems == Get(response, "data").items

\* C9: for every resource list and every queried role id, roleAlreadySet
\* returns true exactly when some resource of the list has that roleId (false
\* for the empty list), after one fetch of the resource list and no other
\* transport call.
C9_RoleAlreadySetIsMembership ==
  RoleOutcome =>
    /\ outcome =
         Returned(JsBool(\E i \in 1..Len(RoleItems) :
                           /\ "roleId" \in DOMAIN RoleItems[i].fields
                           /\ RoleItems[i].fields.roleId = op.roleId))
    /\ Len(requests) = 1
    /\ requests[1].method = "GET"
    /\ requests[1].url = "TC_API_URL/resources?challengeId=id"

C9_Witness ==
  /\ RoleOutcome
  /\ RoleItems = <<Resource("A"), Resource("B")>>
  /\ op.roleId = JsString("B")
  /\ outcome = Returned(JsBool(TRUE))

EveryRequestCarriesTheToken ==
  \A i \in 1..Len(requests) :
    /\ apiKey \in M2MTokens
    /\ requests[i].authorization = JsString("Bearer " \o apiKey.s)

BothCalls == <<"TC_AUTHN_URL", "TC_AUTHZ_URL">>
GotBothTokens(p) ==
  /\ v2Response[p] # NoResponse
  /\ v2Response[p].id_token # Undefined
  /\ v2Response[p].refresh_token # Undefined

\* C4 as stated: a call made with no cached token performs exactly the
\* identity call followed by the authorization call.
C4_ColdCallMakesBothCalls ==
  \A p \in Callers : (pc[p] = "done" /\ cold[p]) => calls[p] = BothCalls

\* C4 amended: a call made with no cached token issues the identity call
\* first and, only if that call answered with both tokens, the authorization
\* call next, and no other call; a call that returns has made exactly these
\* two calls in this order and returns the token it stored in the cache.
C4_ColdCallOrder ==
  \A p \in Callers :
    cold[p] =>
      /\ pc[p] = "authn" => calls[p] = <<"TC_AUTHN_URL">>
      /\ pc[p] = "authz" => calls[p] = BothCalls
      /\ pc[p] = "done" =>
           calls[p] = IF GotBothTokens(p) THEN BothCalls ELSE <<"TC_AUTHN_URL">>
      /\ result[p].type = "return" =>
           /\ calls[p] = BothCalls
           /\ stored[p] = <<result[p].value>>

C4_Witness ==
  \E p \in Callers :
    /\ cold[p]
    /\ pc[p] = "done"
    /\ result[p].type = "return"
    /\ calls[p] = BothCalls
    /\ cachedAccessToken = result[p].value

C6_MissingIdentityTokensFail ==
  \A p \in Callers :
    (v2Response[p] # NoResponse /\ ~GotBothTokens(p)) =>
      /\ pc[p] = "done"
      /\ result[p] = Thrown(AuthenticationError)
      /\ calls[p] = <<"TC_AUTHN_URL">>
      /\ stored[p] = <<>>

C6_Witness ==
  \E p \in Callers :
    /\ v2Response[p] = [id_token |-> JsString("id"), refresh_token |-> Undefined]
    /\ result[p] = Thrown(AuthenticationError)

\* C7: once all the concurrent calls that started on a cold cache have
\* completed, the cache holds the token written by the last exchange that
\* succeeded: a failed exchange neither clears nor replaces it.
C7_LastSuccessfulWriteWins ==
  (\A p \in Callers : pc[p] = "done" /\ cold[p]) => cachedAccessToken = lastSuccess
====
